---- MODULE Spec2Model ----
(***************************************************************************)
(* OAuth 2.1 authorization-code + PKCE flow of mcp-auth-frontend:          *)
(*   - the browser side (AuthProvider session state, MCPClient callback    *)
(*     effect, sessionStorage / localStorage),                             *)
(*   - the token-exchange route  POST /api/auth/token,                     *)
(*   - the identity-link route   POST /api/auth/link-supabase.             *)
(* The repository holds two generations of the browser code and of the     *)
(* token route; both are modelled and selected by a variant field.         *)
(***************************************************************************)
EXTENDS Integers, Sequences, FiniteSets, TLC

(***************************************************************************)
(* JavaScript values.  A missing property / undefined and null are kept    *)
(* apart; numeric fields use integer sentinels so that every field has one *)
(* type.                                                                   *)
(***************************************************************************)
Undef == "undefined"
Null == "null"
UndefNum == -999999
NullNum == -888888

\* JavaScript truthiness of a string-valued field (undefined, null, "" are falsy)
Truthy(v) == v \notin {Undef, Null, ""}

\* JavaScript truthiness of a number-valued field (undefined, null, 0 are falsy)
TruthyNum(n) == n \notin {UndefNum, NullNum, 0}

\* a || b  on string-valued fields
OrElse(a, b) == IF Truthy(a) THEN a ELSE b

\* Response.ok : status in the range 200-299
Ok(status) == status >= 200 /\ status <= 299

(***************************************************************************)
(* Bounds of the model.                                                    *)
(***************************************************************************)
MaxTicks == 1
MaxLoads == 1
MaxRequests == 2

(***************************************************************************)
(* State.                                                                  *)
(***************************************************************************)
VARIABLES
    \* ---- token route (one request / response exchange) ----
    trReq,        \* the request the route last received
    trUpstream,   \* what the authorization server did with the forwarded request
    trSent,       \* the form parameters sent to the token endpoint, or none
    trResp,       \* the route's response
    trAuthorize,  \* the authorize request of the attempt the code came from
    trEnv,        \* NEXT_PUBLIC_APP_BASE_URL in the server's environment
    \* ---- identity-link route ----
    users,        \* the user store: sequence of [id, email, hanko_id, confirmed]
    lkReq,        \* the request the route last received
    lkIntro,      \* the introspection outcome for that request
    lkFault,      \* the user-store faults met by that request
    lkResp,       \* the route's response
    lkWrites,     \* user-store writes performed by the last request
    lkCount,      \* number of requests served
    \* ---- the browser ----
    variant,      \* "v1" / "v2": which generation of AuthProvider + MCPClient runs
    routeVariant, \* "A" / "B": which token route is deployed
    hankoUrl,     \* NEXT_PUBLIC_HANKO_API_URL is set and new Hanko(url) succeeds
    hankoRef,     \* hankoRef.current is set
    url,          \* query parameters of the visible URL
    ss,           \* sessionStorage: PKCE verifier and OAuth state
    ls,           \* localStorage item mcp_auth_state
    authState,    \* AuthProvider state: the latest value given to setAuthState
    rendered,     \* authState as of the last render (what effect closures see)
    dirty,        \* a setAuthState call awaits its render
    urlDirty,     \* a history.replaceState call awaits its render
    effQ,         \* effects of the last commit still to run, in order
    attempted,    \* exchangeAttemptedRef.current
    mounted,      \* MCPClient is mounted (the /client page is shown)
    now,          \* Date.now() in ms
    flow,         \* the asynchronous callback flow: where it waits
    toast,        \* the last toast shown by the callback flow
    sent,         \* history: bodies of the requests sent to /api/auth/token
    wire,         \* history: the requests issued for and since the last page load
    receipt,      \* history: the last token-route response consumed, and when
    lastSet,      \* history: what last called setAuthState
    ssOps,        \* history: sessionStorage operations of the last callback step
    loads,        \* number of page loads after the first
    \* ---- generateRandomString (one call) ----
    rsCrypto,     \* window.crypto is available
    rsLength,     \* the argument `length`
    rsByte,       \* the random value read by the last pass of the loop
    rsResult      \* `result`: the characters appended so far

trVars == <<trReq, trUpstream, trSent, trResp, trAuthorize, trEnv>>
lkVars == <<users, lkReq, lkIntro, lkFault, lkResp, lkWrites, lkCount>>
brVars == <<variant, routeVariant, hankoUrl, hankoRef, url, ss, ls, authState, rendered,
            dirty, urlDirty, effQ, attempted, mounted, now, flow, toast, sent, wire, receipt,
            lastSet, ssOps, loads>>
rsVars == <<rsCrypto, rsLength, rsByte, rsResult>>
vars == <<trReq, trUpstream, trSent, trResp, trAuthorize, trEnv, users, lkReq, lkIntro, lkFault, lkResp,
          lkWrites, lkCount, variant, routeVariant, hankoUrl, hankoRef, url, ss, ls,
          authState, rendered, dirty, urlDirty, effQ, attempted, mounted, now, flow,
          toast, sent, wire, receipt, lastSet, ssOps, loads, rsCrypto, rsLength, rsByte,
          rsResult>>

(***************************************************************************)
(* JSON bodies exchanged with the token endpoint and returned by the token *)
(* route.  form = "nonjson": text JSON.parse rejects; "null": the JSON     *)
(* value null, whose properties cannot be read; "primitive": valid         *)
(* JSON that is no object (a number, a string); "object": an object        *)
(* whose absent keys read Undef / UndefNum.                                *)
(***************************************************************************)
EmptyBody ==
    [form |-> "object", error |-> Undef, error_description |-> Undef,
     access_token |-> Undef, refresh_token |-> Undef, expires_in |-> UndefNum,
     scope |-> Undef]

ExpiresIns == {UndefNum, -1, 0, 1, 2}

TokenSetBodies ==
    {[EmptyBody EXCEPT !.access_token = "tok", !.expires_in = e, !.scope = "openid"] :
        e \in ExpiresIns}
      \cup {[EmptyBody EXCEPT !.access_token = "tok", !.expires_in = 2, !.scope = "openid",
                              !.refresh_token = "rt"]}

ErrorBodies ==
    {[EmptyBody EXCEPT !.error = "invalid_grant", !.error_description = d] :
        d \in {Undef, "bad code"}}

UpstreamBodies ==
    TokenSetBodies \cup ErrorBodies
      \cup {EmptyBody, [EmptyBody EXCEPT !.form = "nonjson"],
            [EmptyBody EXCEPT !.form = "primitive"], [EmptyBody EXCEPT !.form = "null"]}

UpstreamStatuses == {200, 400, 500}

\* what the authorization server's token endpoint may do with a request
UpstreamOutcomes ==
    {[kind |-> "network_error", status |-> 0, body |-> EmptyBody]}
      \cup [kind : {"response"}, status : UpstreamStatuses, body : UpstreamBodies]

NoUpstream == [kind |-> "none", status |-> 0, body |-> EmptyBody]

\* 'error' in responseData
HasErrorKey(body) == body.error # Undef

\* NextResponse.json({ error, error_description }, { status })
RouteError(status, error, description) ==
    [status |-> status,
     body |-> [EmptyBody EXCEPT !.error = error, !.error_description = description]]

(***************************************************************************)
(* POST /api/auth/token.  A request is [variant, json, code, codeVerifier]:*)
(* variant "A" is the route that treats an `error` key as a failure,       *)
(* variant "B" the one that looks at the upstream status only.             *)
(***************************************************************************)
TokenRequests ==
    [variant : {"A", "B"}, json : BOOLEAN, code : {Undef, "", "c1"},
     codeVerifier : {Undef, "", "V1"}]

NoForm == [grant_type |-> "none", code |-> Undef, redirect_uri |-> Undef,
           client_id |-> Undef, code_verifier |-> Undef]

\* lib/constants: the redirect URI, evaluated where the module is loaded: in the
\* browser from window.location.origin, on the server from the environment
OAUTH_REDIRECT_URI(inBrowser, origin, env) ==
    IF inBrowser THEN origin \o "/client"
    ELSE IF Truthy(env) THEN env \o "/client"
    ELSE "http://localhost:3000/client"

OAUTH_CLIENT_ID == "mcp-auth-demo-client"

\* the origins the application is opened at, and the values of the server's
\* NEXT_PUBLIC_APP_BASE_URL
Origins == {"http://localhost:3000", "https://app.example"}
AppBaseUrls == {Undef, "https://app.example", "https://app.example/"}

\* the verifier generatePkceChallenge() produces
PkceVerifier == "V1"

\* the verifiers of successive redirects: generateRandomString(64) gives a new one
\* each time
Verifiers == <<PkceVerifier, "V2", "V3">>
FreshVerifier(n) == Verifiers[n + 1]

\* code_challenge_method `plain`: the challenge is the verifier itself
ChallengePlain(verifier) == verifier

\* base64url(sha256(verifier)), kept symbolic
Challenge(verifier) == "S256:" \o verifier

\* redirectToAuthorization: the query parameters of the authorize URL
AuthorizeParams(origin, state, verifier) ==
    [response_type |-> "code", client_id |-> OAUTH_CLIENT_ID,
     redirect_uri |-> OAUTH_REDIRECT_URI(TRUE, origin, Undef),
     scope |-> "openid profile email mcp:data:read offline_access",
     state |-> state, code_challenge |-> Challenge(verifier),
     code_challenge_method |-> "S256"]

NoAuthorize ==
    [response_type |-> "none", client_id |-> Undef, redirect_uri |-> Undef,
     scope |-> Undef, state |-> Undef, code_challenge |-> Undef, code_challenge_method |-> Undef]

\* request.json() succeeded and both parameters are truthy
TokenRequestValid(req) ==
    req.json /\ Truthy(req.code) /\ Truthy(req.codeVerifier)

\* the form-encoded parameters sent to the token endpoint, NoForm when none is sent
TokenRouteForm(req, env) ==
    IF TokenRequestValid(req)
    THEN [grant_type |-> "authorization_code", code |-> req.code,
          redirect_uri |-> OAUTH_REDIRECT_URI(FALSE, Undef, env),
          client_id |-> OAUTH_CLIENT_ID,
          code_verifier |-> req.codeVerifier]
    ELSE NoForm

\* the upstream response is handed on: its body with its own status
ForwardUpstream(up) == [status |-> up.status, body |-> up.body]

\* variant A after JSON.parse succeeded
TokenRouteDecideA(up) ==
    IF ~Ok(up.status) THEN ForwardUpstream(up)
    ELSE IF up.body.form \in {"primitive", "null"}
         THEN \* `'error' in responseData` throws a TypeError, caught by the outer catch
              RouteError(503, "server_error", "Failed to communicate with authorization server")
    ELSE IF HasErrorKey(up.body) THEN ForwardUpstream(up)
    ELSE [status |-> 200, body |-> up.body]

\* variant B after JSON.parse succeeded
TokenRouteDecideB(up) ==
    IF ~Ok(up.status) THEN ForwardUpstream(up)
    ELSE [status |-> 200, body |-> up.body]

\* TokenRouteResponse without the check of the request parameters
TokenRouteResponseUnvalidated(req, up) ==
    IF up.kind = "network_error"
    THEN RouteError(503, "server_error", "Failed to communicate with authorization server")
    ELSE IF up.body.form = "nonjson"
    THEN RouteError(502, "server_error", "Invalid response from authorization server.")
    ELSE IF req.variant = "A" THEN TokenRouteDecideA(up)
    ELSE TokenRouteDecideB(up)

\* the route's response to req when the token endpoint behaves as up
TokenRouteResponse(req, up) ==
    IF ~req.json
    THEN RouteError(400, "invalid_request", "Invalid request body. JSON expected.")
    ELSE IF ~(Truthy(req.code) /\ Truthy(req.codeVerifier))
    THEN RouteError(400, "invalid_request", "Missing required parameters: code, codeVerifier.")
    ELSE IF up.kind = "network_error"
    THEN RouteError(503, "server_error", "Failed to communicate with authorization server")
    ELSE IF up.body.form = "nonjson"
    THEN RouteError(502, "server_error", "Invalid response from authorization server.")
    ELSE IF req.variant = "A" THEN TokenRouteDecideA(up)
    ELSE TokenRouteDecideB(up)

NoTokenRequest == [variant |-> "A", json |-> FALSE, code |-> Undef, codeVerifier |-> Undef]
NoResponse == [status |-> 0, body |-> EmptyBody]

\* one request served by the route; the token endpoint is consulted only when a
\* form is sent
TokenPOST(req, up) ==
    /\ trReq' = req
    /\ trSent' = TokenRouteForm(req, trEnv)
    /\ UNCHANGED <<trAuthorize, trEnv>>
    /\ trUpstream' = IF TokenRequestValid(req) THEN up ELSE NoUpstream
    /\ trResp' = TokenRouteResponse(req, up)

(***************************************************************************)
(* POST /api/auth/link-supabase.                                           *)
(* The user store (supabaseAdmin.auth.admin) is a sequence of records in   *)
(* listing order; emails are unique in it.                                 *)
(***************************************************************************)
PerPage == 50

Filler(n) ==
    [i \in 1..n |-> [id |-> "f" \o ToString(i), email |-> "f" \o ToString(i) \o "@x",
                     hanko_id |-> Undef, confirmed |-> TRUE]]

UserA == [id |-> "uA", email |-> "a@x", hanko_id |-> "old", confirmed |-> TRUE]
UserB == [id |-> "uB", email |-> "b@x", hanko_id |-> Undef, confirmed |-> TRUE]

\* user stores at the start: empty or holding records, short or longer than a page
InitialStores ==
    {Filler(n) \o tail : n \in {0, PerPage}, tail \in {<< >>, <<UserB>>, <<UserB, UserA>>}}

Emails(store) == {store[i].email : i \in 1..Len(store)}
Ids(store) == {store[i].id : i \in 1..Len(store)}

\* usersList.users of listUsers({ page: 1, perPage: 50 })
ListUsersPage1(store) == SubSeq(store, 1, IF Len(store) < PerPage THEN Len(store) ELSE PerPage)

\* usersList.users.find(u => u.email === email): its id, Undef when none
FindByEmail(list, email) ==
    IF \E i \in 1..Len(list) : list[i].email = email
    THEN list[CHOOSE i \in 1..Len(list) :
                 /\ list[i].email = email
                 /\ \A j \in 1..(i - 1) : list[j].email # email].id
    ELSE Undef

\* updateUserById(id, { app_metadata: { hanko_id } }): no record, no change
UpdateUserById(store, id, hanko) ==
    [i \in 1..Len(store) |->
        IF store[i].id = id THEN [store[i] EXCEPT !.hanko_id = hanko] ELSE store[i]]

NewUserId(store) == "n" \o ToString(Len(store) + 1)

\* createUser({ email, email_confirm: true, app_metadata: { hanko_id } }) succeeding
CreateUser(store, email, hanko) ==
    Append(store, [id |-> NewUserId(store), email |-> email, hanko_id |-> hanko,
                   confirmed |-> TRUE])

LinkResponse(status, error, id) ==
    [status |-> status, error |-> error, success |-> (status = 200), supabaseUserId |-> id]

NoLinkResponse == [status |-> 0, error |-> Undef, success |-> FALSE, supabaseUserId |-> Undef]

\* const validatedHankoId = introspectionData.hankoUserId || introspectionData.sub
ValidatedHankoId(intro) == OrElse(intro.hankoUserId, intro.sub)

\* the introspection call came back 2xx with a truthy `active`
IntrospectionActive(intro) ==
    intro.kind = "response" /\ intro.ok /\ intro.active = "true"

\* a call made to the user store: createUser (id = the record created, Undef when
\* the call reported an error) or updateUserById
StoreCall(op, id, hanko) == [op |-> op, id |-> id, hanko_id |-> hanko]

\* a route that answers success without a determined identifier
SuccessWithoutId(hanko, store) ==
    [resp |-> LinkResponse(200, Undef, Undef),
     store |-> store, writes |-> <<StoreCall("createUser", Undef, hanko)>>]

\* step 6 of the route when no identifier was determined: the lookup after a
\* duplicate threw or found nothing, and the empty catch let the route go on
NoIdDetermined(hanko, store) ==
    [resp |-> LinkResponse(500, "Internal Server Error", Undef),
     store |-> store, writes |-> <<StoreCall("createUser", Undef, hanko)>>]

\* step 5 of the route, reached after the cross-check: [resp, store, writes]
LinkFindOrCreate(req, intro, fault, store) ==
    LET hanko == ValidatedHankoId(intro)
        email == req.hankoEmail
        page  == ListUsersPage1(store)
        found == FindByEmail(page, email)
        internal == NoIdDetermined(hanko, store)
    IN  IF Truthy(req.currentSupabaseUserId)
        THEN [resp |-> LinkResponse(200, Undef, req.currentSupabaseUserId),
              store |-> UpdateUserById(store, req.currentSupabaseUserId, hanko),
              writes |-> <<StoreCall("updateUserById", req.currentSupabaseUserId, hanko)>>]
        ELSE IF fault.create
        THEN [resp |-> LinkResponse(500, "supabase_user_error", Undef),
              store |-> store, writes |-> <<StoreCall("createUser", Undef, hanko)>>]
        ELSE IF email \in Emails(store)
        THEN \* createUser reports a duplicate: look the record up on page 1
             IF fault.list \/ found = Undef
             THEN internal
             ELSE [resp |-> LinkResponse(200, Undef, found),
                   store |-> UpdateUserById(store, found, hanko),
                   writes |-> <<StoreCall("createUser", Undef, hanko),
                                StoreCall("updateUserById", found, hanko)>>]
        ELSE [resp |-> LinkResponse(200, Undef, NewUserId(store)),
              store |-> CreateUser(store, email, hanko),
              writes |-> <<StoreCall("createUser", NewUserId(store), hanko)>>]

\* LinkRoute without the cross-check of the validated identifier against the body
LinkRouteNoCrossCheck(req, intro, fault, store) ==
    LET fail(status, error) ==
            [resp |-> LinkResponse(status, error, Undef), store |-> store, writes |-> << >>]
    IN  IF ~Truthy(req.token) THEN fail(401, "Unauthorized")
        ELSE IF intro.kind = "network_error" THEN fail(502, "server_error")
        ELSE IF ~intro.ok \/ intro.active # "true" THEN fail(401, "Unauthorized")
        ELSE IF ~Truthy(intro.sub) THEN fail(500, "linking_error")
        ELSE IF ~req.json THEN fail(500, "Internal Server Error")
        ELSE IF ~Truthy(req.hankoUserId) \/ ~Truthy(req.hankoEmail)
        THEN fail(400, "Bad Request")
        ELSE LinkFindOrCreate(req, intro, fault, store)

\* LinkRoute answering an inactive token with 403 instead of 401
LinkRouteInactive403(req, intro, fault, store) ==
    LET fail(status, error) ==
            [resp |-> LinkResponse(status, error, Undef), store |-> store, writes |-> << >>]
    IN  IF ~Truthy(req.token) THEN fail(401, "Unauthorized")
        ELSE IF intro.kind = "network_error" THEN fail(502, "server_error")
        ELSE IF ~intro.ok \/ intro.active # "true" THEN fail(403, "Unauthorized")
        ELSE IF ~Truthy(intro.sub) THEN fail(500, "linking_error")
        ELSE IF ~req.json THEN fail(500, "Internal Server Error")
        ELSE IF ~Truthy(req.hankoUserId) \/ ~Truthy(req.hankoEmail)
        THEN fail(400, "Bad Request")
        ELSE IF ValidatedHankoId(intro) # req.hankoUserId THEN fail(400, "Mismatch Error")
        ELSE LinkFindOrCreate(req, intro, fault, store)

\* the whole route: [resp, store, writes]
LinkRoute(req, intro, fault, store) ==
    LET fail(status, error) ==
            [resp |-> LinkResponse(status, error, Undef), store |-> store, writes |-> << >>]
    IN  IF ~Truthy(req.token) THEN fail(401, "Unauthorized")
        ELSE IF intro.kind = "network_error" THEN fail(502, "server_error")
        ELSE IF ~intro.ok \/ intro.active # "true" THEN fail(401, "Unauthorized")
        ELSE IF ~Truthy(intro.sub) THEN fail(500, "linking_error")
        ELSE IF ~req.json THEN fail(500, "Internal Server Error")
        ELSE IF ~Truthy(req.hankoUserId) \/ ~Truthy(req.hankoEmail)
        THEN fail(400, "Bad Request")
        ELSE IF ValidatedHankoId(intro) # req.hankoUserId THEN fail(400, "Mismatch Error")
        ELSE LinkFindOrCreate(req, intro, fault, store)

NoIntro == [kind |-> "none", ok |-> FALSE, active |-> "missing", sub |-> Undef,
            hankoUserId |-> Undef]
NoFault == [create |-> FALSE, list |-> FALSE]
NoLinkRequest == [token |-> Undef, json |-> FALSE, hankoUserId |-> Undef,
                  hankoEmail |-> Undef, currentSupabaseUserId |-> Undef]

\* introspection outcomes that stop the route before the body is read
FailingIntros ==
    {[NoIntro EXCEPT !.kind = "network_error"],
     [NoIntro EXCEPT !.kind = "response", !.ok = FALSE, !.active = "true", !.sub = "A"],
     [NoIntro EXCEPT !.kind = "response", !.ok = TRUE, !.active = "false", !.sub = "A"],
     [NoIntro EXCEPT !.kind = "response", !.ok = TRUE, !.active = "missing", !.sub = "A"],
     [NoIntro EXCEPT !.kind = "response", !.ok = TRUE, !.active = "true"],
     [NoIntro EXCEPT !.kind = "response", !.ok = TRUE, !.active = "true",
                     !.hankoUserId = "A"]}

\* introspection outcomes of an active token with a subject
PassingIntros ==
    {[NoIntro EXCEPT !.kind = "response", !.ok = TRUE, !.active = "true", !.sub = "A",
                     !.hankoUserId = h] : h \in {Undef, "B"}}

BadBodies ==
    {[NoLinkRequest EXCEPT !.token = "tok"],
     [NoLinkRequest EXCEPT !.token = "tok", !.json = TRUE, !.hankoEmail = "a@x"],
     [NoLinkRequest EXCEPT !.token = "tok", !.json = TRUE, !.hankoUserId = "A"]}

GoodBodies ==
    {[token |-> "tok", json |-> TRUE, hankoUserId |-> h, hankoEmail |-> e,
      currentSupabaseUserId |-> c] :
        h \in {"A", "B"}, e \in {"a@x", "c@x"}, c \in {Undef, Null, "uB", "ghost"}}

\* the requests served: the parts of a request the route never reads are left at
\* their defaults
LinkCases ==
    {[req |-> NoLinkRequest, intro |-> NoIntro, fault |-> NoFault]}
      \cup {[req |-> [NoLinkRequest EXCEPT !.token = "tok"], intro |-> i, fault |-> NoFault] :
               i \in FailingIntros}
      \cup {[req |-> r, intro |-> i, fault |-> NoFault] : r \in BadBodies, i \in PassingIntros}
      \cup {[req |-> r, intro |-> i, fault |-> f] :
               r \in GoodBodies, i \in PassingIntros, f \in [create : BOOLEAN, list : BOOLEAN]}

\* one request served by the route
LinkPOST(c) ==
    LET r == LinkRoute(c.req, c.intro, c.fault, users)
    IN  /\ lkCount < MaxRequests
        /\ lkCount' = lkCount + 1
        /\ lkReq' = c.req
        /\ lkIntro' = c.intro
        /\ lkFault' = c.fault
        /\ lkResp' = r.resp
        /\ users' = r.store
        /\ lkWrites' = r.writes

(***************************************************************************)
(* The browser: AuthProvider (session state and its persistence).          *)
(***************************************************************************)
TickMs == 1000
DefaultExpiresIn == 3600

\* a message shown to the user or kept in authState.error
NoMsg == [kind |-> "null", code |-> Undef, description |-> Undef]
Msg(kind, code, description) == [kind |-> kind, code |-> code, description |-> description]

\* the state useState starts with, and logout() sets
IdleState(v) ==
    [status |-> "idle", accessToken |-> Null, refreshToken |-> Null, error |-> NoMsg,
     expiresAt |-> NullNum, scope |-> Null,
     supabaseUserId |-> IF v = "v2" THEN Null ELSE Undef]

\* v1: setAuthState({ status: 'error', error: errorMsg, accessToken: null, ... })
ErrorState(msg) ==
    [status |-> "error", accessToken |-> Null, refreshToken |-> Null, error |-> msg,
     expiresAt |-> NullNum, scope |-> Null, supabaseUserId |-> Undef]

\* a || null
OrNull(v) == IF Truthy(v) THEN v ELSE Null

\* login without the conversion of expires_in from seconds to milliseconds
LoginStateNoMs(tokenData, t) ==
    [status |-> "authenticated",
     accessToken |-> tokenData.access_token,
     refreshToken |-> OrNull(tokenData.refresh_token),
     error |-> NoMsg,
     expiresAt |-> t + (IF TruthyNum(tokenData.expires_in) THEN tokenData.expires_in
                        ELSE DefaultExpiresIn),
     scope |-> OrNull(tokenData.scope),
     supabaseUserId |-> Null]

\* v2 login(tokenData) at time t: the new state.  The token route never returns
\* supabase_user_id, so `tokenData.supabase_user_id || null` is null.
LoginState(tokenData, t) ==
    [status |-> "authenticated",
     accessToken |-> tokenData.access_token,
     refreshToken |-> OrNull(tokenData.refresh_token),
     error |-> NoMsg,
     expiresAt |-> t + (IF TruthyNum(tokenData.expires_in) THEN tokenData.expires_in
                        ELSE DefaultExpiresIn) * 1000,
     scope |-> OrNull(tokenData.scope),
     supabaseUserId |-> Null]

\* v1: the state set by the .then(tokenData => ...) handler at time t
AuthenticatedStateV1(tokenData, t) ==
    [status |-> "authenticated",
     accessToken |-> tokenData.access_token,
     refreshToken |-> OrNull(tokenData.refresh_token),
     error |-> NoMsg,
     expiresAt |-> IF tokenData.expires_in # UndefNum /\ tokenData.expires_in > 0
                   THEN t + tokenData.expires_in * 1000 ELSE NullNum,
     scope |-> tokenData.scope,
     supabaseUserId |-> Undef]

\* localStorage values: no item, text JSON.parse rejects, or a serialized state
NoItem == [form |-> "none", val |-> IdleState("v2")]
Garbage == [form |-> "garbage", val |-> IdleState("v2")]

\* JSON.stringify(authState): keys holding undefined are dropped, which this
\* model reads back as Undef; every other field is kept
Stringify(state) == [form |-> "json", val |-> state]

\* JSON.parse(storedState) of a serialized state
Parse(item) == item.val

\* the condition of the persist effect, and of the restore effect
ValidSession(state, t) ==
    /\ Truthy(state.accessToken)
    /\ TruthyNum(state.expiresAt)
    /\ state.expiresAt > t

\* persist effect that writes whatever the state is
PersistedAlways(state, item, t) == Stringify(state)

\* the persist effect run on `state` at time t: the new localStorage item
Persisted(state, item, t) ==
    IF state.status = "authenticated" /\ ValidSession(state, t)
    THEN Stringify(state)
    ELSE NoItem

\* a restore condition that does not look at the expiry
RestorableIgnoringExpiry(item, t) ==
    item.form = "json" /\ Truthy(Parse(item).accessToken)

\* the restore effect run on `item` at time t: the state it sets, or "keep"
Restorable(item, t) == item.form = "json" /\ ValidSession(Parse(item), t)

RestoredState(item) == [Parse(item) EXCEPT !.status = "authenticated"]

\* items a previous visit may have left in localStorage: a session that expires
\* between two steps of the clock, and one without an access token
StoredSessions ==
    {Stringify([IdleState("v2") EXCEPT !.status = "authenticated", !.accessToken = "old",
                                       !.expiresAt = e, !.scope = "openid"]) :
        e \in {TickMs \div 2}}
      \cup {Stringify([IdleState("v2") EXCEPT !.status = "authenticated",
                                              !.expiresAt = TickMs \div 2])}

(***************************************************************************)
(* The browser: page loads, React rendering and effects.                   *)
(***************************************************************************)
NoParams == [code |-> Null, state |-> Null, error |-> Null, error_description |-> Null]

\* query strings the browser may arrive with on /client
AllParams ==
    {NoParams}
      \cup {[NoParams EXCEPT !.code = "c1", !.state = st] : st \in {"S1", "S2"}}
      \cup {[NoParams EXCEPT !.error = "access_denied", !.error_description = d] :
               d \in {Null, "user cancelled"}}

EmptySS == [verifier |-> Null, state |-> Null]
NoFlow == [pc |-> "none", code |-> Null, verifier |-> Null, link |-> "none"]
NoToast == [level |-> "none", title |-> "none", msg |-> NoMsg]
NoReceipt == [body |-> EmptyBody, at |-> 0]
Toast(level, title, msg) == [level |-> level, title |-> title, msg |-> msg]

\* effects of the commit that mounts the page, children before parents
MountEffects(v) ==
    IF v = "v2" THEN <<"hanko", "callback", "restore", "persist">> ELSE <<"callback">>

\* a request on the wire: where it goes and its parameters as (name, value) pairs
Req(kind, params) == [kind |-> kind, params |-> params]
Pairs(r) == {<<k, r[k]>> : k \in DOMAIN r}

\* the origin the browser has the application open at
BrowserOrigin == "https://app.example"

\* redirectToAuthorization: window.location.href = authUrl
AuthorizeRequest(origin, state, verifier) ==
    Req("authorize", Pairs(AuthorizeParams(origin, state, verifier)))

\* fetch('/api/auth/token', {body: JSON.stringify({code, codeVerifier})}), and the
\* form the route then posts to the token endpoint
ExchangeRequests(body, env) ==
    {Req("token", Pairs(body))}
      \cup (LET form == TokenRouteForm([variant |-> "A", json |-> TRUE, code |-> body.code,
                                        codeVerifier |-> body.codeVerifier], env)
            IN  IF form = NoForm THEN {} ELSE {Req("token-endpoint", Pairs(form))})

\* the user hanko.user.getCurrent() resolves to on success
HankoUser == [id |-> "h1", email |-> "a@example.org"]

\* fetch('/api/auth/link-supabase') with the bearer token, and the introspection
\* request the route makes with that token
LinkRequests(accessToken) ==
    {Req("link", {<<"Authorization", accessToken>>, <<"hankoUserId", HankoUser.id>>,
                  <<"hankoEmail", HankoUser.email>>, <<"currentSupabaseUserId", Null>>}),
     Req("introspect", {<<"token", accessToken>>})}

\* fetchMcpApi(accessToken, '/data')
ApiRequest(accessToken) == Req("api", {<<"Authorization", accessToken>>, <<"path", "/data">>})

\* the effect runs of a mount: once, or twice over when React re-runs the mount
\* effects on the same render (development Strict Mode); refs and state survive
\* the second run, the closures are those of the first render
MountQueues(v) == {MountEffects(v), MountEffects(v) \o MountEffects(v)}

\* what a page load resets: React state, refs and pending asynchronous work
FreshPage ==
    /\ authState' = IdleState(variant)
    /\ rendered' = IdleState(variant)
    /\ dirty' = FALSE
    /\ urlDirty' = FALSE
    /\ effQ' \in MountQueues(variant)
    /\ attempted' = FALSE
    /\ hankoRef' = FALSE
    /\ mounted' = TRUE
    /\ flow' = NoFlow
    /\ toast' = NoToast
    /\ lastSet' = "none"
    /\ ssOps' = << >>
    /\ loads' = loads + 1
    /\ UNCHANGED <<variant, routeVariant, hankoUrl, ls, now, sent, receipt>>

\* MCPAuthButton: redirectToAuthorization() stores a fresh verifier and state and
\* leaves the page; the browser comes back to /client with the parameters p
StartAuth(st, p) ==
    /\ loads < MaxLoads
    /\ mounted
    /\ rendered.status = "idle"
    /\ ss' = [verifier |-> FreshVerifier(loads), state |-> st]
    /\ wire' = {AuthorizeRequest(BrowserOrigin, st, FreshVerifier(loads))}
    /\ url' = p
    /\ FreshPage

\* the user agent is sent to /client with the parameters p (a link, a reload, a
\* replayed or forged callback URL); sessionStorage is what it was
Navigate(p) ==
    /\ loads < MaxLoads
    /\ ss' = ss
    /\ wire' = {}
    /\ url' = p
    /\ FreshPage

\* window.history.replaceState({}, '', window.location.pathname)
ReplaceState ==
    /\ url' = NoParams
    /\ urlDirty' = (urlDirty \/ url # NoParams)

\* React renders the pending updates and schedules the effects whose dependencies
\* changed: v2's callback effect depends on login / logout, which are new functions
\* on every AuthProvider render; v1's on searchParams and authState.status
RenderEffects(v, isMounted, stateSet, urlSet, statusChanged) ==
    (IF isMounted /\ (urlSet \/ (IF v = "v2" THEN stateSet ELSE statusChanged))
     THEN <<"callback">> ELSE << >>)
      \o (IF v = "v2" /\ stateSet THEN <<"persist">> ELSE << >>)

Render ==
    /\ dirty \/ urlDirty
    /\ effQ = << >>
    /\ rendered' = authState
    /\ dirty' = FALSE
    /\ urlDirty' = FALSE
    /\ effQ' = RenderEffects(variant, mounted, dirty, urlDirty,
                             rendered.status # authState.status)
    /\ UNCHANGED <<variant, routeVariant, hankoUrl, hankoRef, url, ss, ls, authState,
                   attempted, mounted, now, flow, toast, sent, wire, receipt, lastSet, ssOps,
                   loads>>

\* time passes; pending renders and effects run before the clock moves on
Tick ==
    /\ now < MaxTicks * TickMs
    /\ ~dirty /\ ~urlDirty /\ effQ = << >>
    /\ now' = now + TickMs
    /\ UNCHANGED <<variant, routeVariant, hankoUrl, hankoRef, url, ss, ls, authState,
                   rendered, dirty, urlDirty, effQ, attempted, mounted, flow, toast, sent, wire,
                   receipt, lastSet, ssOps, loads>>

\* MCPClient: the effect that creates the Hanko SDK instance once on mount
EffHanko ==
    /\ effQ # << >> /\ Head(effQ) = "hanko"
    /\ effQ' = Tail(effQ)
    /\ hankoRef' = hankoUrl
    /\ UNCHANGED <<variant, routeVariant, hankoUrl, url, ss, ls, authState, rendered,
                   dirty, urlDirty, attempted, mounted, now, flow, toast, sent, wire, receipt,
                   lastSet, ssOps, loads>>

\* AuthProvider: the mount effect that restores a stored session
EffRestore ==
    /\ effQ # << >> /\ Head(effQ) = "restore"
    /\ effQ' = Tail(effQ)
    /\ IF ls.form = "none"
       THEN UNCHANGED <<ls, authState, dirty, lastSet>>
       ELSE IF Restorable(ls, now)
       THEN /\ authState' = RestoredState(ls)
            /\ dirty' = TRUE
            /\ lastSet' = "restore"
            /\ ls' = ls
       ELSE /\ ls' = NoItem
            /\ UNCHANGED <<authState, dirty, lastSet>>
    /\ UNCHANGED <<variant, routeVariant, hankoUrl, hankoRef, url, ss, rendered, urlDirty,
                   attempted, mounted, now, flow, toast, sent, wire, receipt, ssOps, loads>>

\* AuthProvider: the effect that mirrors the rendered state to localStorage
EffPersist ==
    /\ effQ # << >> /\ Head(effQ) = "persist"
    /\ effQ' = Tail(effQ)
    /\ ls' = Persisted(rendered, ls, now)
    /\ UNCHANGED <<variant, routeVariant, hankoUrl, hankoRef, url, ss, authState, rendered,
                   dirty, urlDirty, attempted, mounted, now, flow, toast, sent, wire, receipt,
                   lastSet, ssOps, loads>>

\* Header: the Logout button, shown while the rendered status is authenticated
UserLogout ==
    /\ variant = "v2"
    /\ rendered.status = "authenticated"
    /\ effQ = << >>
    /\ authState' = IdleState(variant)
    /\ dirty' = TRUE
    /\ lastSet' = "logout"
    /\ UNCHANGED <<variant, routeVariant, hankoUrl, hankoRef, url, ss, ls, rendered,
                   urlDirty, effQ, attempted, mounted, now, flow, toast, sent, wire, receipt,
                   ssOps, loads>>

\* "Call API": handleApiCall with the session of the last render.  Without a token
\* it only warns; with an expired one it gives the session up (v2: logout(), v1:
\* status error); otherwise the request goes out with the bearer token.  Its own
\* toasts and the api result are not part of the state kept here.
ApiCall ==
    /\ mounted /\ effQ = << >>
    /\ rendered.status = "authenticated"
    /\ IF ~Truthy(rendered.accessToken)
       THEN UNCHANGED <<authState, dirty, lastSet, wire>>
       ELSE IF TruthyNum(rendered.expiresAt) /\ now > rendered.expiresAt
       THEN /\ authState' = (IF variant = "v2" THEN IdleState(variant)
                             ELSE [authState EXCEPT !.status = "error",
                                                    !.error = Msg("Access token expired.",
                                                                  Undef, Undef)])
            /\ dirty' = TRUE
            /\ lastSet' = (IF variant = "v2" THEN "logout" ELSE "error")
            /\ wire' = wire
       ELSE /\ wire' = wire \cup {ApiRequest(rendered.accessToken)}
            /\ UNCHANGED <<authState, dirty, lastSet>>
    /\ UNCHANGED <<variant, routeVariant, hankoUrl, hankoRef, url, ss, ls, rendered,
                   urlDirty, effQ, attempted, mounted, now, flow, toast, sent, receipt,
                   ssOps, loads>>

\* VaultEditor: isAuthenticated
IsAuthenticated(state) == state.status = "authenticated" /\ Truthy(state.accessToken)

\* the user opens /vault from the header (client-side navigation, AuthProvider keeps
\* its state): MCPClient is unmounted, VaultEditor mounts and its mount effect runs
\* fetchVaultData, which sends the bearer request whenever isAuthenticated
VaultOpen ==
    /\ variant = "v2"
    /\ effQ = << >> /\ ~dirty /\ ~urlDirty
    /\ flow.pc \notin {"awaitToken", "awaitHankoUser", "awaitLink"}
    /\ mounted' = FALSE
    /\ url' = NoParams
    /\ wire' = (IF IsAuthenticated(rendered)
                THEN wire \cup {ApiRequest(rendered.accessToken)} ELSE wire)
    /\ UNCHANGED <<variant, routeVariant, hankoUrl, hankoRef, ss, ls, authState, rendered,
                   dirty, urlDirty, effQ, attempted, now, flow, toast, sent, receipt,
                   lastSet, ssOps, loads>>

(***************************************************************************)
(* MCPClient: the effect that handles the OAuth callback.                  *)
(***************************************************************************)
\* `Authorization failed: ${error} (${errorDescription || 'No description provided'})`
AuthorizationFailed(params) ==
    Msg("Authorization failed", params.error,
        OrElse(params.error_description, "No description provided"))

\* the check that accepts any stored state
CallbackCheckPresenceOnly(storedState, storedVerifier, state) ==
    IF ~Truthy(storedState) THEN "state_mismatch"
    ELSE IF ~Truthy(storedVerifier) THEN "verifier_missing"
    ELSE "exchange"

\* validation of the values read from sessionStorage against the redirect's state
CallbackCheck(storedState, storedVerifier, state) ==
    IF ~Truthy(storedState) \/ storedState # state THEN "state_mismatch"
    ELSE IF ~Truthy(storedVerifier) THEN "verifier_missing"
    ELSE "exchange"

CheckMsg(check) ==
    IF check = "state_mismatch" THEN Msg("State mismatch", Undef, Undef)
    ELSE Msg("PKCE verifier missing", Undef, Undef)

\* the main path's sessionStorage operations, in program order, read first
MainPathOps ==
    <<"get:verifier", "get:state", "remove:verifier", "remove:state", "validate">>

\* a main path that reads the stored pair and leaves it in place
AfterConsumeKept(store) == store

\* sessionStorage after the main path's removeItem calls
AfterConsume(store) == EmptySS

\* the body sent to /api/auth/token
ExchangeBody(code, storedVerifier) == [code |-> code, codeVerifier |-> storedVerifier]

CallbackDue == effQ # << >> /\ Head(effQ) = "callback"

\* v1, `if (error)`: the redirect carries an error
V1ErrorBranch ==
    /\ variant = "v1" /\ CallbackDue /\ Truthy(url.error)
    /\ effQ' = Tail(effQ)
    /\ authState' = ErrorState(AuthorizationFailed(url))
    /\ dirty' = TRUE
    /\ lastSet' = "error"
    /\ toast' = Toast("error", "OAuth Error", AuthorizationFailed(url))
    /\ ss' = EmptySS
    /\ ssOps' = <<"remove:verifier", "remove:state">>
    /\ ReplaceState
    /\ UNCHANGED <<variant, routeVariant, hankoUrl, hankoRef, ls, rendered, attempted,
                   mounted, now, flow, sent, wire, receipt, loads>>

\* v1, `if (code && state && authState.status === 'idle')`
V1MainPath ==
    /\ variant = "v1" /\ CallbackDue /\ ~Truthy(url.error)
    /\ Truthy(url.code) /\ Truthy(url.state) /\ rendered.status = "idle"
    /\ effQ' = Tail(effQ)
    /\ ss' = AfterConsume(ss)
    /\ ssOps' = MainPathOps
    /\ dirty' = TRUE
    /\ LET check == CallbackCheck(ss.state, ss.verifier, url.state)
       IN  IF check = "exchange"
           THEN /\ authState' = [authState EXCEPT !.status = "loading", !.error = NoMsg]
                /\ lastSet' = "loading"
                /\ flow' = [pc |-> "awaitToken", code |-> url.code, verifier |-> ss.verifier,
                             link |-> "none"]
                /\ sent' = Append(sent, ExchangeBody(url.code, ss.verifier))
                /\ wire' = wire \cup ExchangeRequests(ExchangeBody(url.code, ss.verifier), trEnv)
                /\ UNCHANGED <<toast, url, urlDirty>>
           ELSE /\ authState' = ErrorState(CheckMsg(check))
                /\ lastSet' = "error"
                /\ toast' = Toast("error",
                                   IF check = "state_mismatch" THEN "Security Alert"
                                   ELSE "Authorization Error",
                                   CheckMsg(check))
                /\ ReplaceState
                /\ UNCHANGED <<flow, sent, wire>>
    /\ UNCHANGED <<variant, routeVariant, hankoUrl, hankoRef, ls, rendered, attempted,
                   mounted, now, receipt, loads>>

\* v1: no branch applies
V1Noop ==
    /\ variant = "v1" /\ CallbackDue /\ ~Truthy(url.error)
    /\ ~(Truthy(url.code) /\ Truthy(url.state) /\ rendered.status = "idle")
    /\ effQ' = Tail(effQ)
    /\ UNCHANGED <<variant, routeVariant, hankoUrl, hankoRef, url, ss, ls, authState,
                   rendered, dirty, urlDirty, attempted, mounted, now, flow, toast, sent, wire,
                   receipt, lastSet, ssOps, loads>>

\* v2 logout() as called by the callback handler
LogoutSet ==
    /\ authState' = IdleState(variant)
    /\ dirty' = TRUE
    /\ lastSet' = "logout"

\* v2, `if (error)`: processed once per page load
V2ErrorBranch ==
    /\ variant = "v2" /\ CallbackDue /\ Truthy(url.error)
    /\ effQ' = Tail(effQ)
    /\ IF ~attempted
       THEN /\ LogoutSet
            /\ toast' = Toast("error", "OAuth Error", AuthorizationFailed(url))
            /\ ss' = EmptySS
            /\ ssOps' = <<"remove:verifier", "remove:state">>
            /\ ReplaceState
            /\ attempted' = TRUE
       ELSE UNCHANGED <<authState, dirty, lastSet, toast, ss, ssOps, url, urlDirty, attempted>>
    /\ UNCHANGED <<variant, routeVariant, hankoUrl, hankoRef, ls, rendered, mounted, now,
                   flow, sent, wire, receipt, loads>>

V2MainGuard ==
    /\ Truthy(url.code) /\ Truthy(url.state) /\ rendered.status = "idle"
    /\ ~attempted /\ hankoRef

\* v2, the main path up to its first await
V2MainPath ==
    /\ variant = "v2" /\ CallbackDue /\ ~Truthy(url.error)
    /\ V2MainGuard
    /\ effQ' = Tail(effQ)
    /\ ss' = AfterConsume(ss)
    /\ ssOps' = MainPathOps
    /\ dirty' = TRUE
    /\ LET check == CallbackCheck(ss.state, ss.verifier, url.state)
       IN  IF check = "exchange"
           THEN /\ attempted' = TRUE
                /\ authState' = [authState EXCEPT !.status = "loading", !.error = NoMsg]
                /\ lastSet' = "loading"
                /\ flow' = [pc |-> "awaitToken", code |-> url.code, verifier |-> ss.verifier,
                             link |-> "none"]
                /\ sent' = Append(sent, ExchangeBody(url.code, ss.verifier))
                /\ wire' = wire \cup ExchangeRequests(ExchangeBody(url.code, ss.verifier), trEnv)
                /\ UNCHANGED toast
           ELSE \* throw; the catch block: logout(), toast, allow a retry
                /\ attempted' = FALSE
                /\ authState' = IdleState(variant)
                /\ lastSet' = "logout"
                /\ toast' = Toast("error", "Authentication Failed", CheckMsg(check))
                /\ UNCHANGED <<flow, sent, wire>>
    /\ UNCHANGED <<variant, routeVariant, hankoUrl, hankoRef, url, urlDirty, ls, rendered,
                   mounted, now, receipt, loads>>

\* v2, `else if (authState.status === 'idle' && !code && !error)`
V2ResetBranch ==
    /\ variant = "v2" /\ CallbackDue /\ ~Truthy(url.error)
    /\ ~V2MainGuard
    /\ rendered.status = "idle" /\ ~Truthy(url.code)
    /\ effQ' = Tail(effQ)
    /\ attempted' = FALSE
    /\ UNCHANGED <<variant, routeVariant, hankoUrl, hankoRef, url, ss, ls, authState,
                   rendered, dirty, urlDirty, mounted, now, flow, toast, sent, wire, receipt,
                   lastSet, ssOps, loads>>

\* v2, `else if (code && state && authState.status === 'authenticated')`
V2StaleBranch ==
    /\ variant = "v2" /\ CallbackDue /\ ~Truthy(url.error)
    /\ Truthy(url.code) /\ Truthy(url.state) /\ rendered.status = "authenticated"
    /\ effQ' = Tail(effQ)
    /\ ReplaceState
    /\ UNCHANGED <<variant, routeVariant, hankoUrl, hankoRef, ss, ls, authState, rendered,
                   dirty, attempted, mounted, now, flow, toast, sent, wire, receipt, lastSet,
                   ssOps, loads>>

\* v2: no branch applies, or only the one that logs that the SDK is not ready
V2Noop ==
    /\ variant = "v2" /\ CallbackDue /\ ~Truthy(url.error)
    /\ ~V2MainGuard
    /\ ~(rendered.status = "idle" /\ ~Truthy(url.code))
    /\ ~(Truthy(url.code) /\ Truthy(url.state) /\ rendered.status = "authenticated")
    /\ effQ' = Tail(effQ)
    /\ UNCHANGED <<variant, routeVariant, hankoUrl, hankoRef, url, ss, ls, authState,
                   rendered, dirty, urlDirty, attempted, mounted, now, flow, toast, sent, wire,
                   receipt, lastSet, ssOps, loads>>

(***************************************************************************)
(* MCPClient: the continuations of the callback flow.                      *)
(***************************************************************************)
\* what fetch('/api/auth/token') may resolve to for the flow's request; NoResponse
\* stands for a rejected fetch
TokenOutcomes(rv, code, verifier) ==
    {NoResponse}
      \cup {TokenRouteResponse([variant |-> rv, json |-> TRUE, code |-> code,
                                codeVerifier |-> verifier], up) : up \in UpstreamOutcomes}

\* the response makes the handler throw: rejected fetch, status outside 2xx, or a
\* null body, whose properties cannot be read
ExchangeFailed(resp) ==
    resp = NoResponse \/ ~Ok(resp.status) \/ resp.body.form = "null"

\* errorPayload.error_description || errorPayload.error || `... status ${res.status}`
ExchangeFailedMsg(resp) ==
    Msg("Token exchange failed",
        IF resp.body.form = "null" THEN "type_error" ELSE OrElse(resp.body.error, "status"),
        IF resp.body.form = "null" THEN Undef ELSE resp.body.error_description)

\* v1: the fetch promise settles (a promise callback or a click runs as a task of
\* its own, after the effects of the current commit have run)
V1TokenResponse(resp) ==
    /\ variant = "v1" /\ flow.pc = "awaitToken"
    /\ effQ = << >>
    /\ dirty' = TRUE
    /\ IF ExchangeFailed(resp)
       THEN /\ authState' = ErrorState(ExchangeFailedMsg(resp))
            /\ lastSet' = "error"
            /\ toast' = Toast("error", "Token Exchange Failed", ExchangeFailedMsg(resp))
            /\ flow' = [flow EXCEPT !.pc = "failed"]
            /\ UNCHANGED <<url, urlDirty, receipt>>
       ELSE /\ authState' = AuthenticatedStateV1(resp.body, now)
            /\ lastSet' = "authenticated"
            /\ toast' = Toast("success", "Authentication Successful", NoMsg)
            /\ flow' = [flow EXCEPT !.pc = "done"]
            /\ receipt' = [body |-> resp.body, at |-> now]
            /\ ReplaceState
    /\ UNCHANGED <<variant, routeVariant, hankoUrl, hankoRef, ss, ls, rendered, effQ,
                   attempted, mounted, now, sent, wire, ssOps, loads>>

\* v2: the end of the async function: toast, strip the URL, go to /dashboard
\* `link` records how linkHankoToSupabase ended: "skipped", "failed" or "linked"
Finish(link) ==
    /\ toast' = Toast("success", "Authentication Successful", NoMsg)
    /\ ReplaceState
    /\ mounted' = FALSE
    /\ flow' = [flow EXCEPT !.pc = "done", !.link = link]

\* v2: the fetch promise settles; on success login() and the start of the link step
V2TokenResponse(resp) ==
    /\ variant = "v2" /\ flow.pc = "awaitToken"
    /\ effQ = << >>
    /\ dirty' = TRUE
    /\ IF ExchangeFailed(resp)
       THEN /\ authState' = IdleState(variant)
            /\ lastSet' = "logout"
            /\ toast' = Toast("error", "Authentication Failed", ExchangeFailedMsg(resp))
            /\ attempted' = FALSE
            /\ flow' = [flow EXCEPT !.pc = "failed"]
            /\ UNCHANGED <<url, urlDirty, receipt, mounted>>
       ELSE /\ authState' = LoginState(resp.body, now)
            /\ lastSet' = "login"
            /\ receipt' = [body |-> resp.body, at |-> now]
            /\ attempted' = attempted
            /\ IF hankoRef /\ Truthy(resp.body.access_token)
               THEN /\ flow' = [flow EXCEPT !.pc = "awaitHankoUser"]
                    /\ UNCHANGED <<url, urlDirty, mounted, toast>>
               ELSE Finish("skipped")
    /\ UNCHANGED <<variant, routeVariant, hankoUrl, hankoRef, ss, ls, rendered, effQ, now,
                   sent, wire, ssOps, loads>>

HankoOutcomes == {"throws", "incomplete", "user"}

\* a link step that clears the session when it fails
LinkFailureLogsOut(state) == IdleState("v2")

\* the session after a failed link step: every catch block of linkHankoToSupabase
\* leaves it alone
AfterLinkFailure(state) == state

\* v2: hanko.user.getCurrent() settles
V2HankoUser(o) ==
    /\ variant = "v2" /\ flow.pc = "awaitHankoUser"
    /\ effQ = << >>
    /\ authState' = (IF o = "user" THEN authState ELSE AfterLinkFailure(authState))
    /\ dirty' = dirty
    /\ IF o = "user"
       THEN /\ flow' = [flow EXCEPT !.pc = "awaitLink"]
            /\ wire' = wire \cup LinkRequests(receipt.body.access_token)
            /\ UNCHANGED <<url, urlDirty, mounted, toast>>
       ELSE Finish("failed") /\ wire' = wire
    /\ UNCHANGED <<variant, routeVariant, hankoUrl, hankoRef, ss, ls, rendered, effQ,
                   attempted, now, sent, receipt, lastSet, ssOps, loads>>

\* what fetch('/api/auth/link-supabase') may resolve to, as the handler reads it
LinkOutcomes ==
    {[net |-> FALSE, ok |-> FALSE, supabaseUserId |-> Undef]}
      \cup [net : {TRUE}, ok : BOOLEAN, supabaseUserId : {Undef, "u1"}]

\* how the handler classifies the settled link request
LinkOutcomeKind(o) ==
    IF ~o.net THEN "network_error"
    ELSE IF ~o.ok THEN "rejected"
    ELSE IF ~Truthy(o.supabaseUserId) THEN "no_id"
    ELSE "linked"

\* v2: the link request settles; a confirmed id is merged into the session
V2LinkResponse(o) ==
    /\ variant = "v2" /\ flow.pc = "awaitLink"
    /\ effQ = << >>
    /\ IF LinkOutcomeKind(o) = "linked"
       THEN /\ authState' = [authState EXCEPT !.supabaseUserId = o.supabaseUserId]
            /\ dirty' = TRUE
            /\ lastSet' = "merge"
       ELSE /\ authState' = AfterLinkFailure(authState)
            /\ UNCHANGED <<dirty, lastSet>>
    /\ Finish(IF LinkOutcomeKind(o) = "linked" THEN "linked" ELSE "failed")
    /\ UNCHANGED <<variant, routeVariant, hankoUrl, hankoRef, ss, ls, rendered, effQ,
                   attempted, now, sent, wire, receipt, ssOps, loads>>

(***************************************************************************)
(* lib/mcp/client.ts: generateRandomString.                                *)
(***************************************************************************)
\* the longest string asked for
MaxLength == 2

\* const characters
characters ==
    << "A", "B", "C", "D", "E", "F", "G", "H", "I", "J", "K", "L", "M",
       "N", "O", "P", "Q", "R", "S", "T", "U", "V", "W", "X", "Y", "Z",
       "a", "b", "c", "d", "e", "f", "g", "h", "i", "j", "k", "l", "m",
       "n", "o", "p", "q", "r", "s", "t", "u", "v", "w", "x", "y", "z",
       "0", "1", "2", "3", "4", "5", "6", "7", "8", "9", "-", ".", "_", "~" >>

\* String.prototype.charAt, for an index inside the string
charAt(str, i) == str[i + 1]

\* the values of one element of a Uint8Array
ByteValues == 0..255
NoByte == -1

\* the character the loop appends for the random value b
CharOfByte(b) == charAt(characters, b % Len(characters))

\* Math.floor(Math.random() * characters.length)
FallbackIndexes == 0..(Len(characters) - 1)

\* one pass of the loop over window.crypto.getRandomValues' output
RandomCryptoStep(b) ==
    /\ rsCrypto
    /\ Len(rsResult) < rsLength
    /\ rsByte' = b
    /\ rsResult' = Append(rsResult, CharOfByte(b))
    /\ UNCHANGED <<rsCrypto, rsLength>>

\* one pass of the loop of the branch without window.crypto
RandomFallbackStep(k) ==
    /\ ~rsCrypto
    /\ Len(rsResult) < rsLength
    /\ rsByte' = NoByte
    /\ rsResult' = Append(rsResult, charAt(characters, k))
    /\ UNCHANGED <<rsCrypto, rsLength>>

\* no call of generateRandomString is under way
RandomIdle ==
    /\ rsCrypto = TRUE
    /\ rsLength = 0
    /\ rsByte = NoByte
    /\ rsResult = << >>

(***************************************************************************)
(* Specifications of the two routes taken alone.                           *)
(***************************************************************************)
BrowserIdle ==
    /\ variant = "v2"
    /\ routeVariant = "A"
    /\ hankoUrl = TRUE
    /\ hankoRef = FALSE
    /\ url = NoParams
    /\ ss = EmptySS
    /\ ls = NoItem
    /\ authState = IdleState("v2")
    /\ rendered = IdleState("v2")
    /\ dirty = FALSE
    /\ urlDirty = FALSE
    /\ effQ = << >>
    /\ attempted = FALSE
    /\ mounted = FALSE
    /\ now = 0
    /\ flow = NoFlow
    /\ toast = NoToast
    /\ sent = << >>
    /\ wire = {}
    /\ receipt = NoReceipt
    /\ lastSet = "none"
    /\ ssOps = << >>
    /\ loads = 0

TokenInit ==
    /\ trReq = NoTokenRequest
    /\ trUpstream = NoUpstream
    /\ trSent = NoForm
    /\ trResp = NoResponse
    /\ trAuthorize \in {AuthorizeParams(o, "S1", PkceVerifier) : o \in Origins}
    /\ trEnv \in AppBaseUrls
    /\ users = << >>
    /\ lkReq = NoLinkRequest
    /\ lkIntro = NoIntro
    /\ lkFault = NoFault
    /\ lkResp = NoLinkResponse
    /\ lkWrites = << >>
    /\ lkCount = 0
    /\ BrowserIdle
    /\ RandomIdle

TokenNext ==
    \E req \in TokenRequests, up \in UpstreamOutcomes :
        TokenPOST(req, up) /\ UNCHANGED lkVars /\ UNCHANGED brVars /\ UNCHANGED rsVars

SpecToken == TokenInit /\ [][TokenNext]_vars

LinkInit ==
    /\ users \in InitialStores
    /\ lkReq = NoLinkRequest
    /\ lkIntro = NoIntro
    /\ lkFault = NoFault
    /\ lkResp = NoLinkResponse
    /\ lkWrites = << >>
    /\ lkCount = 0
    /\ trReq = NoTokenRequest
    /\ trUpstream = NoUpstream
    /\ trSent = NoForm
    /\ trResp = NoResponse
    /\ trAuthorize = NoAuthorize
    /\ trEnv = Undef
    /\ BrowserIdle
    /\ RandomIdle

LinkNext ==
    \E c \in LinkCases :
        LinkPOST(c) /\ UNCHANGED trVars /\ UNCHANGED brVars /\ UNCHANGED rsVars

SpecLink == LinkInit /\ [][LinkNext]_vars

(***************************************************************************)
(* generateRandomString taken alone: one call, for every length up to      *)
(* MaxLength and every value the random source can deliver.                *)
(***************************************************************************)
RandomInit ==
    /\ rsCrypto \in BOOLEAN
    /\ rsLength \in 0..MaxLength
    /\ rsByte = NoByte
    /\ rsResult = << >>
    /\ trReq = NoTokenRequest
    /\ trUpstream = NoUpstream
    /\ trSent = NoForm
    /\ trResp = NoResponse
    /\ trAuthorize = NoAuthorize
    /\ trEnv = Undef
    /\ users = << >>
    /\ lkReq = NoLinkRequest
    /\ lkIntro = NoIntro
    /\ lkFault = NoFault
    /\ lkResp = NoLinkResponse
    /\ lkWrites = << >>
    /\ lkCount = 0
    /\ BrowserIdle

RandomNext ==
    \/ \E b \in ByteValues :
          RandomCryptoStep(b) /\ UNCHANGED trVars /\ UNCHANGED lkVars /\ UNCHANGED brVars
    \/ \E k \in FallbackIndexes :
          RandomFallbackStep(k) /\ UNCHANGED trVars /\ UNCHANGED lkVars /\ UNCHANGED brVars

SpecRandom == RandomInit /\ [][RandomNext]_vars

(***************************************************************************)
(* The browser flow, with the token route answering its exchange request.  *)
(***************************************************************************)
Init ==
    /\ variant \in {"v1", "v2"}
    /\ routeVariant \in {"A", "B"}
    /\ hankoUrl \in (IF variant = "v2" THEN BOOLEAN ELSE {TRUE})
    /\ hankoRef = FALSE
    /\ url = NoParams
    /\ ss = EmptySS
    /\ ls \in (IF variant = "v2" THEN {NoItem, Garbage} \cup StoredSessions ELSE {NoItem})
    /\ authState = IdleState(variant)
    /\ rendered = IdleState(variant)
    /\ dirty = FALSE
    /\ urlDirty = FALSE
    /\ effQ = MountEffects(variant)
    /\ attempted = FALSE
    /\ mounted = TRUE
    /\ now = 0
    /\ flow = NoFlow
    /\ toast = NoToast
    /\ sent = << >>
    /\ wire = {}
    /\ receipt = NoReceipt
    /\ lastSet = "none"
    /\ ssOps = << >>
    /\ loads = 0
    /\ trReq = NoTokenRequest
    /\ trUpstream = NoUpstream
    /\ trSent = NoForm
    /\ trResp = NoResponse
    /\ trAuthorize = NoAuthorize
    /\ trEnv = Undef
    /\ users = << >>
    /\ lkReq = NoLinkRequest
    /\ lkIntro = NoIntro
    /\ lkFault = NoFault
    /\ lkResp = NoLinkResponse
    /\ lkWrites = << >>
    /\ lkCount = 0
    /\ rsCrypto = TRUE
    /\ rsLength = 0
    /\ rsByte = NoByte
    /\ rsResult = << >>

routeVars == <<trVars, lkVars, rsVars>>

Next ==
    \/ \E p \in AllParams : StartAuth("S1", p) /\ UNCHANGED routeVars
    \/ \E p \in AllParams : Navigate(p) /\ UNCHANGED routeVars
    \/ Render /\ UNCHANGED routeVars
    \/ Tick /\ UNCHANGED routeVars
    \/ EffHanko /\ UNCHANGED routeVars
    \/ EffRestore /\ UNCHANGED routeVars
    \/ EffPersist /\ UNCHANGED routeVars
    \/ UserLogout /\ UNCHANGED routeVars
    \/ ApiCall /\ UNCHANGED routeVars
    \/ VaultOpen /\ UNCHANGED routeVars
    \/ V1ErrorBranch /\ UNCHANGED routeVars
    \/ V1MainPath /\ UNCHANGED routeVars
    \/ V1Noop /\ UNCHANGED routeVars
    \/ V2ErrorBranch /\ UNCHANGED routeVars
    \/ V2MainPath /\ UNCHANGED routeVars
    \/ V2ResetBranch /\ UNCHANGED routeVars
    \/ V2StaleBranch /\ UNCHANGED routeVars
    \/ V2Noop /\ UNCHANGED routeVars
    \/ \E r \in TokenOutcomes(routeVariant, flow.code, flow.verifier) :
          V1TokenResponse(r) /\ UNCHANGED routeVars
    \/ \E r \in TokenOutcomes(routeVariant, flow.code, flow.verifier) :
          V2TokenResponse(r) /\ UNCHANGED routeVars
    \/ \E o \in HankoOutcomes : V2HankoUser(o) /\ UNCHANGED routeVars
    \/ \E o \in LinkOutcomes : V2LinkResponse(o) /\ UNCHANGED routeVars

Spec == Init /\ [][Next]_vars

\* what React does by itself: a scheduled render, and the effects of a commit
ReactWork ==
    \/ Render \/ EffHanko \/ EffRestore \/ EffPersist
    \/ V1ErrorBranch \/ V1MainPath \/ V1Noop
    \/ V2ErrorBranch \/ V2MainPath \/ V2ResetBranch \/ V2StaleBranch \/ V2Noop

\* a pending promise of the callback flow settles
Settle ==
    \/ \E r \in TokenOutcomes(routeVariant, flow.code, flow.verifier) :
          V1TokenResponse(r) \/ V2TokenResponse(r)
    \/ \E o \in HankoOutcomes : V2HankoUser(o)
    \/ \E o \in LinkOutcomes : V2LinkResponse(o)

\* The browser flow with its scheduling: a render or an effect that is due is
\* run, and a request in flight is answered or fails.  Nothing is assumed about
\* what the user does or about the passing of time.
SpecLive ==
    /\ Init
    /\ [][Next]_vars
    /\ WF_vars(ReactWork /\ UNCHANGED routeVars)
    /\ WF_vars(Settle /\ UNCHANGED routeVars)

(***************************************************************************)
(* Properties of the browser flow (checked under Spec).                    *)
(***************************************************************************)
\* this step is a run of the callback effect
CallbackStep == loads' = loads /\ CallbackDue /\ effQ' = Tail(effQ)

\* this step is a run of the callback effect that enters the main path
MainPathEntered ==
    /\ CallbackStep
    /\ ~Truthy(url.error) /\ Truthy(url.code) /\ Truthy(url.state)
    /\ rendered.status = "idle"
    /\ variant = "v2" => (~attempted /\ hankoRef)

\* the stored state is present and equals the redirect's, and a verifier is stored
StoredPairMatches == Truthy(ss.state) /\ ss.state = url.state /\ Truthy(ss.verifier)

\* React has nothing left to do and no request of the callback flow is in flight
Quiescent ==
    /\ effQ = << >> /\ ~dirty /\ ~urlDirty
    /\ flow.pc \notin {"awaitToken", "awaitHankoUser", "awaitLink"}

\* C1: a request to /api/auth/token is sent only by a step that finds the stored
\* state present and equal to the redirect's `state` and a stored verifier present,
\* and its body is the redirect's code with that verifier; a main-path run that
\* finds the stored state absent or different, or no verifier, reports the
\* integrity error and sends nothing.
C1_ExchangeOnlyOnVerifiedState ==
    [][/\ sent' # sent =>
            /\ StoredPairMatches
            /\ sent' = Append(sent, [code |-> url.code, codeVerifier |-> ss.verifier])
       /\ (MainPathEntered /\ ~StoredPairMatches) =>
            /\ sent' = sent
            /\ flow' = flow
            /\ toast'.level = "error"
            /\ toast'.msg.kind =
                  (IF ~Truthy(ss.state) \/ ss.state # url.state
                   THEN "State mismatch" ELSE "PKCE verifier missing")
            /\ authState'.status \notin {"loading", "authenticated"}]_vars

C1_Witness ==
    /\ ssOps = MainPathOps
    /\ toast.level = "error"
    /\ toast.msg.kind = "State mismatch"
    /\ url.state = "S2"
    /\ flow.pc = "none"
    /\ sent = << >>

\* C2: for every page load that carries `code` and `state`, once the handling of
\* the callback is over the stored verifier and the stored state are gone from
\* sessionStorage, each removed once, after both were read and before validation,
\* whether the attempt succeeded or failed.
C2_StoredPairConsumedOnEveryCallbackLoad ==
    /\ ssOps = MainPathOps => ss = EmptySS
    /\ (Quiescent /\ mounted /\ ~Truthy(url.error) /\ Truthy(url.code) /\ Truthy(url.state)) =>
          (ss = EmptySS /\ ssOps = MainPathOps)

\* the step consumes a token set returned by the exchange
TokenSetConsumed ==
    /\ loads' = loads
    /\ flow.pc = "awaitToken"
    /\ flow'.pc \notin {"awaitToken", "failed"}
    /\ Truthy(receipt'.body.access_token)
    /\ receipt'.body.expires_in # UndefNum
    /\ Truthy(receipt'.body.scope)

\* C3: with `code=c, state=S` in the redirect and {state: S, verifier: V} stored, the
\* exchange is called with exactly {code: c, codeVerifier: V}; when it returns a
\* token set {access_token, expires_in, scope} the session becomes `authenticated`
\* with that access token and scope and expires_at = time of receipt +
\* expires_in * 1000 ms.
C3_EndToEndSuccess ==
    [][/\ (MainPathEntered /\ StoredPairMatches) =>
            sent' = Append(sent, [code |-> url.code, codeVerifier |-> ss.verifier])
       /\ TokenSetConsumed =>
            /\ authState'.status = "authenticated"
            /\ authState'.accessToken = receipt'.body.access_token
            /\ authState'.scope = receipt'.body.scope
            /\ authState'.expiresAt = now + receipt'.body.expires_in * 1000]_vars

\* C3 amended: as C3, with expires_at = time of receipt + expires_in * 1000 ms
\* claimed for a token set whose expires_in is a positive number.
C3_Amended ==
    [][/\ (MainPathEntered /\ StoredPairMatches) =>
            sent' = Append(sent, [code |-> url.code, codeVerifier |-> ss.verifier])
       /\ (TokenSetConsumed /\ receipt'.body.expires_in > 0) =>
            /\ authState'.status = "authenticated"
            /\ authState'.accessToken = receipt'.body.access_token
            /\ authState'.scope = receipt'.body.scope
            /\ authState'.expiresAt = now + receipt'.body.expires_in * 1000]_vars

C3_Witness ==
    /\ sent = <<[code |-> "c1", codeVerifier |-> "V1"]>>
    /\ lastSet \in {"login", "authenticated"}
    /\ receipt.at > 0
    /\ receipt.body.expires_in = 2
    /\ authState.status = "authenticated"
    /\ authState.accessToken = "tok"
    /\ authState.scope = "openid"
    /\ authState.expiresAt = receipt.at + 2000

\* C4: when the redirect carries `error`, the callback handler leaves the session in
\* status `error` with a message holding the error code and the description,
\* sessionStorage without verifier and state, the URL without the callback
\* parameters, and no exchange request sent.
C4_ErrorShortCircuit ==
    [][(CallbackStep /\ Truthy(url.error)) =>
          /\ authState'.status = "error"
          /\ authState'.error.code = url.error
          /\ authState'.error.description =
                OrElse(url.error_description, "No description provided")
          /\ ss' = EmptySS
          /\ url' = NoParams
          /\ sent' = sent
          /\ flow'.pc = "none"]_vars

\* C10: once React has run the persist effect for the state set by login() with an
\* access token and a positive expires_in, localStorage holds the serialized
\* authenticated session; once it has run it for the state set by logout(),
\* localStorage holds no session and the state is idle with the token fields and
\* the local user id null.
C10_DurableAfterLoginAndLogout ==
    (variant = "v2" /\ effQ = << >> /\ ~dirty) =>
        /\ (/\ lastSet = "login"
            /\ Truthy(receipt.body.access_token)
            /\ receipt.body.expires_in # UndefNum
            /\ receipt.body.expires_in > 0) =>
              /\ authState.status = "authenticated"
              /\ ls = Stringify(authState)
        /\ lastSet = "logout" =>
              /\ ls = NoItem
              /\ authState.status = "idle"
              /\ authState.accessToken = Null
              /\ authState.refreshToken = Null
              /\ authState.expiresAt = NullNum
              /\ authState.scope = Null
              /\ authState.supabaseUserId = Null

C10_Witness ==
    /\ variant = "v2" /\ effQ = << >> /\ ~dirty
    /\ lastSet = "login"
    /\ receipt.body.expires_in = 1
    /\ authState.accessToken = "tok"
    /\ ls = Stringify(authState)

\* C11: whenever React has nothing pending, localStorage holds a serialized session
\* only while the state is `authenticated` with a token that has not yet expired
\* (time may pass expires_at between state changes); when the state is not validly
\* authenticated localStorage holds nothing.
C11_StoredOnlyWhileValid ==
    (variant = "v2" /\ effQ = << >> /\ ~dirty) =>
        /\ ls.form # "none" =>
              /\ ls.form = "json"
              /\ authState.status = "authenticated"
              /\ ValidSession(authState, now)
        /\ ~(authState.status = "authenticated" /\ ValidSession(authState, now)) =>
              ls = NoItem

\* this step is a run of the restore effect
RestoreStep == loads' = loads /\ effQ # << >> /\ Head(effQ) = "restore" /\ effQ' = Tail(effQ)

InQ(e, q) == \E i \in 1..Len(q) : q[i] = e

\* C12: localStorage is read once per page load, by an effect of the first commit; an
\* item that parses to a session with an access token and an expiresAt later than
\* the current time makes the state `authenticated` with the stored fields and is
\* kept; any other item (unparsable, without token, expired) is removed and the state
\* is left as it was, and so it is when there is no item.
C12_StartupRestore ==
    [][/\ (loads' = loads /\ InQ("restore", effQ')) => InQ("restore", effQ)
       /\ RestoreStep =>
            /\ rendered = IdleState(variant)
            /\ IF /\ ls.form = "json"
                  /\ Truthy(ls.val.accessToken)
                  /\ TruthyNum(ls.val.expiresAt)
                  /\ ls.val.expiresAt > now
               THEN /\ authState' = [ls.val EXCEPT !.status = "authenticated"]
                    /\ ls' = ls
               ELSE /\ ls' = NoItem
                    /\ authState' = authState]_vars

C12_Witness ==
    /\ lastSet = "restore"
    /\ loads = 1
    /\ authState.status = "authenticated"
    /\ authState.accessToken = "old"
    /\ authState.scope = "openid"
    /\ authState.expiresAt > now

\* the step consumes a successful answer of the exchange
ExchangeConsumed ==
    /\ loads' = loads
    /\ flow.pc = "awaitToken"
    /\ flow'.pc \notin {"awaitToken", "failed"}

\* C13: on a successful exchange expires_at is now + expires_in * 1000 ms when
\* expires_in is a positive number, and null when expires_in is missing, zero or
\* negative.
C13_ExpiryComputation ==
    [][ExchangeConsumed =>
          authState'.expiresAt =
             (IF receipt'.body.expires_in # UndefNum /\ receipt'.body.expires_in > 0
              THEN now + receipt'.body.expires_in * 1000
              ELSE NullNum)]_vars

\* the step ends the link step in a failure: the identity provider's user lookup
\* failed or gave no id and email, the link request was not delivered or was
\* answered non-2xx, or the answer held no identifier
LinkStepFails ==
    /\ loads' = loads
    /\ flow.pc \in {"awaitHankoUser", "awaitLink"}
    /\ flow'.pc = "done"
    /\ flow'.link = "failed"

\* C14: a failing link step changes nothing of the session: a session that is
\* authenticated stays authenticated with the tokens obtained by the exchange and
\* without a local user identifier.
C14_LinkFailureNotFatal ==
    [][LinkStepFails =>
          /\ authState' = authState
          /\ lastSet = "login" =>
                /\ authState'.status = "authenticated"
                /\ authState'.accessToken = receipt.body.access_token
                /\ authState'.refreshToken = OrNull(receipt.body.refresh_token)
                /\ authState'.supabaseUserId = Null]_vars

C14_Witness ==
    /\ flow.pc = "done"
    /\ flow.link = "failed"
    /\ lastSet = "login"
    /\ authState.status = "authenticated"
    /\ authState.accessToken = "tok"
    /\ authState.refreshToken = "rt"
    /\ authState.supabaseUserId = Null

\* a callback attempt of this page load is under way: a request is in flight
InFlight == flow.pc \in {"awaitToken", "awaitHankoUser", "awaitLink"}

\* C15: a run of the callback effect while an attempt of the same page load is under
\* way does nothing to it: it neither reads nor removes the stored pair, starts no
\* exchange, and raises no error (session state, toast and the pending request are
\* left as they are), also when the rendered status is `idle` again.
C15_OverlappingRunIsNoOp ==
    [][(CallbackStep /\ InFlight) =>
          UNCHANGED <<ss, ssOps, sent, authState, toast, flow>>]_vars

\* the callback attempt of this page load has ended, in success or in failure
Completed == flow.pc \in {"done", "failed"}

\* C16: while the token exchange or the identity-link request of a callback attempt
\* is in flight the URL still carries the attempt's code and state, and the step
\* that ends the attempt, in success or in failure (a failed validation of the
\* stored pair included), leaves the URL without code and state.
C16_UrlStrippedOnlyOnCompletion ==
    [][/\ InFlight' => (url'.code = flow'.code /\ Truthy(url'.state))
       /\ (loads' = loads /\ InFlight /\ Completed') =>
              (~Truthy(url'.code) /\ ~Truthy(url'.state))
       /\ (MainPathEntered /\ ~StoredPairMatches) =>
              (~Truthy(url'.code) /\ ~Truthy(url'.state))]_vars

\* a callback attempt of this page load has failed: its error toast is showing
AttemptFailed == toast.level = "error"

\* C17: once a callback attempt of a page load has failed, no later step of that
\* page load enters the main path again or sends a token-exchange request.
C17_NoAutomaticRetry ==
    [][(loads' = loads /\ AttemptFailed) => (~MainPathEntered /\ sent' = sent)]_vars

\* the kinds of request that carry a parameter with value v
CarriedBy(v) == {r.kind : r \in {q \in wire : \E p \in q.params : p[2] = v}}

\* C19: of all requests issued by the flow (authorize redirect, exchange call and
\* the route's call to the token endpoint, identity link, introspection, resource
\* API) only the exchange call and the token-endpoint call carry the PKCE verifier,
\* as their codeVerifier / code_verifier parameter; the authorize redirect carries
\* the challenge derived from it and the stored state.
C19_VerifierOnlyInExchange ==
    /\ \A i \in DOMAIN Verifiers :
          CarriedBy(Verifiers[i]) \subseteq {"token", "token-endpoint"}
    /\ \A r \in wire :
          /\ \A p \in r.params :
                (\E i \in DOMAIN Verifiers : p[2] = Verifiers[i]) =>
                    p[1] \in {"codeVerifier", "code_verifier"}
          /\ r.kind = "authorize" =>
                /\ \E i \in DOMAIN Verifiers :
                      <<"code_challenge", Challenge(Verifiers[i])>> \in r.params
                /\ \E p \in r.params : p[1] = "state" /\ Truthy(p[2])

C19_Witness ==
    /\ {r.kind : r \in wire} =
          {"authorize", "token", "token-endpoint", "link", "introspect", "api"}
    /\ CarriedBy(PkceVerifier) = {"token", "token-endpoint"}

\* this step is a failure of the main path: the validation of the stored pair
\* fails, or the exchange request settles in a failure
MainPathFails ==
    \/ MainPathEntered /\ ~StoredPairMatches
    \/ loads' = loads /\ flow.pc = "awaitToken" /\ flow'.pc = "failed"

\* C20: a step of the main path that fails (state mismatch, missing verifier, failed
\* exchange) issues no further request and leaves the session in status `error`
\* with access token, refresh token, expiry and scope cleared.
C20_MainPathFailureIsError ==
    [][MainPathFails =>
          /\ wire' = wire
          /\ authState'.status = "error"
          /\ authState'.accessToken = Null /\ authState'.refreshToken = Null
          /\ authState'.expiresAt = NullNum /\ authState'.scope = Null]_vars

\* the session the handlers see has an expiry time and the clock is past it
Expired(state) == TruthyNum(state.expiresAt) /\ now > state.expiresAt

\* C21: no step sends a resource-API request with the bearer token of a session
\* whose expires_at has passed.
C21_NoRequestAfterExpiry ==
    [][(\E r \in wire' \ wire : r.kind = "api") => ~Expired(rendered)]_vars

\* the step writes a pair into sessionStorage
PairWritten == ss' # ss /\ ss' # EmptySS

C25_AuthenticatedHasToken ==
    authState.status = "authenticated" => Truthy(authState.accessToken)

\* C26: a session whose status is idle holds no access token, refresh token,
\* expiry, scope or local user identifier, also when logout() ran while the link
\* request was in flight.
C26_IdleHoldsNothing ==
    authState.status = "idle" =>
        /\ authState.accessToken = Null
        /\ authState.refreshToken = Null
        /\ authState.expiresAt = NullNum
        /\ authState.scope = Null
        /\ ~Truthy(authState.supabaseUserId)

\* the session in memory is one the startup restore took from localStorage, and it
\* has not expired
RestoredSession ==
    /\ Restorable(ls, now)
    /\ authState = RestoredState(ls)

\* the step is a callback attempt of this page load reporting its failure
CallbackAttemptFails ==
    /\ loads' = loads
    /\ toast' # toast
    /\ toast'.level = "error"

\* C30: a failing callback attempt leaves a valid session restored from
\* localStorage as it is, and once the page has settled the session in memory and
\* the stored item agree.
C30_RestoredSessionSurvives ==
    [][/\ (RestoredSession /\ CallbackAttemptFails) => authState' = authState
       /\ (variant = "v2" /\ Quiescent' /\ Restorable(ls', now')) =>
             authState' = RestoredState(ls')
       /\ (/\ variant = "v2" /\ Quiescent'
           /\ authState'.status = "authenticated"
           /\ ValidSession(authState', now')) =>
             ls' = Stringify(authState')]_vars

(***************************************************************************)
(* Progress of the callback (checked under SpecLive).                      *)
(***************************************************************************)
\* page load n shows /client with code and state while the session is idle and no
\* attempt has been made
CallbackPending(n) ==
    /\ loads = n /\ mounted
    /\ ~Truthy(url.error) /\ Truthy(url.code) /\ Truthy(url.state)
    /\ authState.status = "idle"
    /\ flow.pc = "none"

\* the callback of page load n is over: the session is authenticated or a failure
\* was reported, or the user has gone elsewhere
CallbackOver(n) ==
    \/ authState.status = "authenticated"
    \/ authState.status = "error"
    \/ toast.level = "error"
    \/ loads # n
    \/ ~mounted

\* C27: a page load with code and state while the session is idle eventually ends
\* in an authenticated session or in a reported failure, whatever the
\* configuration, also without an instance of the identity-provider SDK.
C27_CallbackEventuallyOver ==
    \A n \in 0..MaxLoads : CallbackPending(n) ~> CallbackOver(n)

\* C28: the main path of the callback is entered only finitely often: after a
\* failed attempt the handler comes to rest.
C28_MainPathFinitelyOften == <>[][~MainPathEntered]_vars

(***************************************************************************)
(* Properties of the token route (checked under SpecToken).                *)
(***************************************************************************)
TokenServed == trResp.status # 0

\* C5: the route answers 200 only when the token endpoint answered 2xx with a body
\* that has no `error` key; whenever the token endpoint answers non-2xx or with an
\* `error` key, the route hands on the upstream error and its status is not 200.
C5_ErrorNeverAnswered200 ==
    (TokenServed /\ trUpstream.kind = "response") =>
        /\ trResp.status = 200 =>
              (Ok(trUpstream.status) /\ ~HasErrorKey(trUpstream.body))
        /\ (~Ok(trUpstream.status) \/ HasErrorKey(trUpstream.body)) =>
              trResp.status # 200
        /\ (trUpstream.body.form = "object" /\ HasErrorKey(trUpstream.body)) =>
              /\ trResp.body.error = trUpstream.body.error
              /\ trResp.body.error_description = trUpstream.body.error_description

C18_RedirectUriEqual ==
    trSent.grant_type = "authorization_code" =>
        trSent.redirect_uri = trAuthorize.redirect_uri

(***************************************************************************)
(* Properties of the identity-link route (checked under SpecLink).         *)
(* They are stated on the step that serves a request: the unprimed store   *)
(* is the store the request found.                                         *)
(***************************************************************************)
LinkServes == lkCount' # lkCount

\* the request passed introspection and its body was read with both fields present
LinkBodyRead(req, intro) ==
    /\ Truthy(req.token)
    /\ IntrospectionActive(intro)
    /\ Truthy(intro.sub)
    /\ req.json

\* the cross-check was reached and passed
LinkMatched(req, intro) ==
    /\ LinkBodyRead(req, intro)
    /\ Truthy(req.hankoUserId)
    /\ Truthy(req.hankoEmail)
    /\ ValidatedHankoId(intro) = req.hankoUserId

\* C7: when the identifier verified by introspection differs from the body's
\* hankoUserId the call fails with the mismatch error and the user store is neither
\* called nor changed; no createUser / updateUserById call is ever made unless
\* introspection returned active = true and the verified identifier equals the
\* supplied hankoUserId.
C7_NoWriteWithoutVerifiedMatch ==
    [][LinkServes =>
        /\ (lkWrites' # << >> \/ users' # users) =>
              /\ IntrospectionActive(lkIntro')
              /\ ValidatedHankoId(lkIntro') = lkReq'.hankoUserId
        /\ (/\ LinkBodyRead(lkReq', lkIntro')
            /\ Truthy(lkReq'.hankoUserId)
            /\ Truthy(lkReq'.hankoEmail)
            /\ ValidatedHankoId(lkIntro') # lkReq'.hankoUserId) =>
              /\ lkResp'.status = 400
              /\ lkResp'.error = "Mismatch Error"
              /\ lkWrites' = << >>
              /\ users' = users]_vars

C7_Witness ==
    /\ lkResp.error = "Mismatch Error"
    /\ IntrospectionActive(lkIntro)
    /\ lkIntro.sub = "A"
    /\ lkReq.hankoUserId = "B"
    /\ lkWrites = << >>

\* the user store was inconsistent for the request: createUser failed, or it
\* reported a duplicate and the lookup failed or found no record
StoreInconsistent(req, fault, store) ==
    /\ ~Truthy(req.currentSupabaseUserId)
    /\ \/ fault.create
       \/ /\ req.hankoEmail \in Emails(store)
          /\ fault.list \/ FindByEmail(ListUsersPage1(store), req.hankoEmail) = Undef

\* the status mapping of C8 apart from its statement about 500
LinkStatusMapping(req, intro, resp) ==
    /\ ~Truthy(req.token) => resp.status = 401
    /\ (Truthy(req.token) /\ intro.kind = "network_error") => resp.status = 502
    /\ (Truthy(req.token) /\ intro.kind = "response" /\ ~IntrospectionActive(intro)) =>
          resp.status = 401
    /\ (LinkBodyRead(req, intro) /\ ~LinkMatched(req, intro)) => resp.status = 400
    /\ resp.status = 200 =>
          /\ LinkMatched(req, intro)
          /\ resp.success
          /\ Truthy(resp.supabaseUserId)
    /\ resp.status \in {200, 400, 401, 500, 502}

RecordsByEmail(store, email) == {i \in 1..Len(store) : store[i].email = email}

\* C9: on a subject match (and a working user store) the record is resolved by the
\* supplied email: none with that email => one is created, pre-confirmed and tagged
\* with the external subject; one exists anywhere in the store => its tag is set to
\* the current value; the returned supabaseUserId is that record's id.
C9_ResolvedByEmail ==
    [][(LinkServes /\ LinkMatched(lkReq', lkIntro') /\ lkFault' = NoFault
          /\ ~Truthy(lkReq'.currentSupabaseUserId)) =>
        /\ lkResp'.status = 200
        /\ \E i \in RecordsByEmail(users', lkReq'.hankoEmail) :
              /\ users'[i].hanko_id = lkReq'.hankoUserId
              /\ users'[i].confirmed
              /\ users'[i].id = lkResp'.supabaseUserId
        /\ IF RecordsByEmail(users, lkReq'.hankoEmail) = {}
           THEN Len(users') = Len(users) + 1 /\ SubSeq(users', 1, Len(users)) = users
           ELSE /\ Len(users') = Len(users)
                /\ \A i \in 1..Len(users) :
                      users'[i].email # lkReq'.hankoEmail => users'[i] = users[i]]_vars


\* the request served by this step got as far as createUser, which reported that
\* the email is registered already
DuplicateReported ==
    /\ lkCount' = lkCount + 1
    /\ lkWrites' # << >> /\ lkWrites'[1].op = "createUser"
    /\ ~lkFault'.create
    /\ lkReq'.hankoEmail \in Emails(users)

\* the lookup that follows a duplicate throws or finds no record with the email
LookupUnresolved ==
    \/ lkFault'.list
    \/ \A i \in 1..Len(ListUsersPage1(users)) :
           ListUsersPage1(users)[i].email # lkReq'.hankoEmail

\* C24: a success response carries a non-empty local user identifier; a duplicate
\* on create whose lookup by email fails or finds nothing ends in a 500 answer
\* without success, identifier or write.
C24_SuccessHasIdentifier ==
    [][/\ lkResp'.success <=> lkResp'.status = 200
       /\ lkResp'.success => Truthy(lkResp'.supabaseUserId)
       /\ (DuplicateReported /\ LookupUnresolved) =>
             /\ lkResp'.status = 500
             /\ ~lkResp'.success
             /\ ~Truthy(lkResp'.supabaseUserId)
             /\ users' = users]_vars

\* a request for an email registered beyond the first page of the listing was
\* answered 500
C24_Witness ==
    /\ lkResp.status = 500 /\ lkResp.error = "Internal Server Error"
    /\ lkReq.json /\ ~lkFault.create /\ ~lkFault.list
    /\ ~Truthy(lkReq.currentSupabaseUserId)
    /\ lkReq.hankoEmail \in Emails(users)
    /\ lkWrites = <<StoreCall("createUser", Undef, lkReq.hankoUserId)>>

\* the records of the store whose tag this step changed
Tagged ==
    {i \in 1..Len(users') : i > Len(users) \/ users'[i].hanko_id # users[i].hanko_id}

\* C29: every record the route tags with the caller's subject, and the record whose
\* id it returns as supabaseUserId, has the email given as hankoEmail, whether or
\* not the body supplies currentSupabaseUserId.
C29_TagsOnlyRecordOfEmail ==
    [][LinkServes =>
        /\ \A i \in Tagged : users'[i].email = lkReq'.hankoEmail
        /\ lkResp'.success =>
              \E i \in 1..Len(users') :
                  /\ users'[i].id = lkResp'.supabaseUserId
                  /\ users'[i].email = lkReq'.hankoEmail]_vars

(***************************************************************************)
(* Properties of generateRandomString (checked under SpecRandom).          *)
(***************************************************************************)
\* the characters of the declared alphabet
Alphabet == {characters[i] : i \in DOMAIN characters}

\* the random values for which the loop appends c
BytesFor(c) == {b \in ByteValues : CharOfByte(b) = c}

\* C23: the string returned has exactly `length` characters, all of the
\* 66-character alphabet, and every character of the alphabet is produced by the
\* same number of the 256 values of a random byte.
C23_ExactLengthUniform ==
    /\ Cardinality(Alphabet) = 66
    /\ Len(rsResult) <= rsLength
    /\ \A i \in DOMAIN rsResult : rsResult[i] \in Alphabet
    /\ (rsByte # NoByte) =>
          \A c \in Alphabet :
              Cardinality(BytesFor(c)) = Cardinality(BytesFor(rsResult[Len(rsResult)]))

====
